---- MODULE Spec2Model ----
(***************************************************************************)
(* castle-cron: a fleet of scheduler servers and a job-maintenance CLI     *)
(* that coordinate through Zookeeper znodes /jobs/<name>, /nextjob and the *)
(* lock /joblock.                                                          *)
(*                                                                         *)
(* The store is modelled by what the program reads and writes in it: the   *)
(* children of /jobs with their data, the data of /nextjob, the owner of   *)
(* the lock, and the one-shot watches the servers set on /nextjob.         *)
(* Time is a global clock of whole instants; the zero time.Time is 0.      *)
(***************************************************************************)
EXTENDS Integers, Sequences, FiniteSets, TLC

VARIABLES
    now,        \* the wall clock read by time.Now()
    jobsZk,     \* /jobs: function from the existing job names to their data
    nextjob,    \* data of /nextjob
    lockOwner,  \* the process whose session owns /joblock, or "none"
    hasLock,    \* the hasLock flag of every process
    pc,         \* where every process stands
    job,        \* the job variable of every process
    watch,      \* the watch channel GetW handed to every server
    res,        \* result of the CLI command of every CLI process
    op,         \* subcommand of every CLI process
    listed,     \* jobs returned by ListJobs to every CLI process
    runs,       \* history: the last instant every name was dispatched for, by whom, how often
    acked,      \* history: last CLI mutation of every name that returned success
    hist,       \* the histories this specification records
    serversZk,  \* /servers: function from the existing server names to the
                \* process whose session owns the ephemeral node
    serverName, \* the serverName variable of every server
    znodes,     \* the keys of the namespace that exist in the store
    initAt,     \* the key every process is at in Init, 0 outside Init
    isRunning,  \* the isRunning flag of every server
    monitor,    \* where the goroutine of reportServers of every server stands
    srvWatch,   \* the watch channel ChildrenW handed to every server
    serverMap,  \* the serverMap of every server: names to update counts
    mapUpdCount,    \* the mapUpdCount of every server
    allServers,     \* the children of /servers every server read last
    newServers,     \* the servers every server reported last as started
    deletedServers, \* the servers every server reported last as stopped
    lastServers     \* history: the children every server had read before the last

vars == <<now, jobsZk, nextjob, lockOwner, hasLock, pc, job, watch, res, op,
          listed, runs, acked, hist, serversZk, serverName, znodes, initAt,
          isRunning, monitor, srvWatch, serverMap, mapUpdCount, allServers,
          newServers, deletedServers, lastServers>>

\* the state of the membership monitors
monVars == <<isRunning, monitor, srvWatch, serverMap, mapUpdCount, allServers,
             newServers, deletedServers, lastServers>>

----------------------------------------------------------------------------
\* Bounds of the model

MaxTime == 3
MaxRuns == 2
MaxUpdCount == 3

Servers == {"s1", "s2"}
Clis == {"c1", "c2"}
Procs == Servers \cup Clis
JobNames == {"a", "b"}
Cmds == {"/bin/true"}
Schedules == {"every", "once", "notacron"}
OnceAt == 3

NameRank(n) == IF n = "" THEN 0 ELSE IF n = "a" THEN 1 ELSE 2

----------------------------------------------------------------------------
\* Program constants

NULL_JOBNAME == ""
ZeroTime == 0
Day == 24

NAMESPACE == "/castle-cron"
PATH_SERVERS == "/castle-cron/servers"
PATH_JOBS == "/castle-cron/jobs"
PATH_NEXT_JOB == "/castle-cron/nextjob"
PATH_JOBLOCK == "/castle-cron/joblock"

\* the keys Init creates, in the order of its calls of createIfNecessary
InitPaths == <<NAMESPACE, PATH_JOBS, PATH_NEXT_JOB, PATH_SERVERS, PATH_JOBLOCK>>

AllPaths == {InitPaths[i] : i \in 1..Len(InitPaths)}

----------------------------------------------------------------------------
\* The Job struct and its codec

ZeroJob ==
    [Name |-> "", Cmd |-> "", Args |-> <<>>, HasError |-> FALSE,
     NextRuntime |-> ZeroTime, Schedule |-> ""]

\* gob sends only the fields that differ from their zero value
Serialize(j) ==
    << [f \in {g \in DOMAIN j : j[g] # ZeroJob[g]} |-> j[f]] >>

\* a decoder that takes every array for the empty one
DecodesNull(b, t) == [ZeroJob EXCEPT !.NextRuntime = t + Day]

\* t is time.Now() at the call
Deserialize(b, t) ==
    IF Len(b) = 0
    THEN [ZeroJob EXCEPT !.NextRuntime = t + Day]
    ELSE [f \in DOMAIN ZeroJob |->
            IF f \in DOMAIN b[1] THEN b[1][f] ELSE ZeroJob[f]]

\* a parser that accepts every string
AnyParses(sched) == TRUE

\* cronexpr.Parse
ParseOk(sched) == sched \in {"every", "once"}

\* cronexpr's Next: the first instant of the schedule after t, the zero time
\* when the schedule has none left
Next(sched, t) ==
    IF sched = "every" THEN t + 1
    ELSE IF t < OnceAt THEN OnceAt ELSE ZeroTime

\* Job.SetNextRuntime: <<changed, error, job>>
SetNextRuntime(j, t) ==
    IF ~ParseOk(j.Schedule)
    THEN [changed |-> FALSE, err |-> TRUE, job |-> j]
    ELSE [changed |-> j.NextRuntime # Next(j.Schedule, t),
          err |-> FALSE,
          job |-> [j EXCEPT !.NextRuntime = Next(j.Schedule, t)]]

----------------------------------------------------------------------------
\* The store

NoAck == [kind |-> "none", job |-> ZeroJob]

NoJobs == [n \in {} |-> << >>]

NoServers == [n \in {} |-> ""]

\* the empty serverMap
NoCounts == [n \in {} |-> 0]

NoRuns == [n \in JobNames |-> [at |-> -1, by |-> {}, n |-> 0]]

\* a write of /nextjob that fires no watch
NoWatchFires == watch

\* a write of /nextjob fires the watch of every server that holds one
FireWatches == [s \in Servers |-> IF watch[s] = "armed" THEN "fired" ELSE watch[s]]

\* zk.Conn.Children returns the children of /jobs in an order of the store's choosing
Orders(S) ==
    {o \in [1..Cardinality(S) -> S] : \A i, k \in 1..Cardinality(S) : i # k => o[i] # o[k]}

\* a change of the children of /servers, which become those of new, fires the
\* watch of every server that holds one
FireServerWatches(new) ==
    [s \in Servers |->
       IF srvWatch[s] = "armed" /\ DOMAIN new # DOMAIN serversZk THEN "fired"
       ELSE srvWatch[s]]

\* the specification follows the membership monitors
Monitored == "members" \in hist

\* Run after setServerName: reportServers and isRunning = true, then the loop
AfterSetServerName == IF Monitored THEN "report" ELSE "getw"

\* the process of server s is gone, and its goroutines and variables with it;
\* the children of /servers become those of new
ProcessEnds(s, new) ==
    /\ isRunning' = [isRunning EXCEPT ![s] = FALSE]
    /\ monitor' = [monitor EXCEPT ![s] = "none"]
    /\ srvWatch' = [FireServerWatches(new) EXCEPT ![s] = "none"]
    /\ serverMap' = [serverMap EXCEPT ![s] = NoCounts]
    /\ mapUpdCount' = [mapUpdCount EXCEPT ![s] = 0]
    /\ allServers' = [allServers EXCEPT ![s] = {}]
    /\ newServers' = [newServers EXCEPT ![s] = {}]
    /\ deletedServers' = [deletedServers EXCEPT ![s] = {}]
    /\ lastServers' = [lastServers EXCEPT ![s] = {}]

\* the store deletes the ephemeral nodes of the session of process p
ServersWithout(p) ==
    [n \in {m \in DOMAIN serversZk : serversZk[m] # p} |-> serversZk[n]]

\* the store still holds something of the session of process p
SessionLeft(p) == lockOwner = p \/ \E n \in DOMAIN serversZk : serversZk[n] = p

\* a lock node that outlives the session that created it
LockOutlivesSession(p) == lockOwner

\* the lock node is ephemeral: the store deletes it when the session of its
\* owner p ends, which frees /joblock
LockAfterSessionEnd(p) == IF lockOwner = p THEN "none" ELSE lockOwner

\* zk.Lock.Unlock fails when the lock node of the caller no longer exists
UnlockOk(p) == ~hasLock[p] \/ lockOwner = p

\* an Unlock that leaves the lock node in place
LockKept(p) == lockOwner

\* releaseJobsLock: the owner of /joblock and the flags after the call
LockAfterRelease(p) == IF hasLock[p] /\ lockOwner = p THEN "none" ELSE lockOwner

\* a release that leaves the hasLock flag set
FlagKept(p) == hasLock

FlagAfterRelease(p) == [hasLock EXCEPT ![p] = hasLock[p] /\ lockOwner # p]

\* a Create that overwrites an existing node
CreateOverwrites(j) == TRUE

\* Job.WriteToZk: zk Create of /jobs/<name>, refused when the node exists
WriteToZkOk(j) == j.Name \notin DOMAIN jobsZk

WriteToZkData(j) ==
    [n \in DOMAIN jobsZk \cup {j.Name} |-> IF n = j.Name THEN Serialize(j) ELSE jobsZk[n]]

\* a Set that is lost
SetLost(j) == jobsZk

\* Job.UpdateZk: zk Set of /jobs/<name>, refused when the node does not exist
UpdateZkOk(j) == j.Name \in DOMAIN jobsZk

UpdateZkData(j) == [jobsZk EXCEPT ![j.Name] = Serialize(j)]

\* a Delete that accepts a node that does not exist
DeleteTolerant(j) == TRUE

\* Job.DeleteFromZk: zk Delete of /jobs/<name>, refused when the node does not exist
DeleteFromZkOk(j) == j.Name \in DOMAIN jobsZk

DeleteFromZkData(j) == [n \in DOMAIN jobsZk \ {j.Name} |-> jobsZk[n]]

\* the loop of setNextjob over the children in the order given
RECURSIVE ScanJobs(_, _, _)
ScanJobs(order, i, cur) ==
    IF i > Len(order) THEN cur
    ELSE LET job2 == Deserialize(jobsZk[order[i]], now)
         IN  IF cur.nil \/ (cur.job.NextRuntime > job2.NextRuntime /\ ~job2.HasError)
             THEN ScanJobs(order, i + 1, [nil |-> FALSE, job |-> job2])
             ELSE ScanJobs(order, i + 1, cur)

\* setNextjob: the data of /nextjob after the call
SetNextjobData(order) ==
    LET pick == ScanJobs(order, 1, [nil |-> TRUE, job |-> ZeroJob])
    IN  IF pick.nil THEN nextjob ELSE Serialize(pick.job)

SetNextjobWrites(order) == Len(order) > 0

\* Job.UpdateZkNextjob: set /nextjob to the serialized job
UpdateZkNextjob(j) == Serialize(j)

\* checkForNextjobUpdate: "set" the job, "scan" the catalog, or leave /nextjob alone
checkForNextjobUpdate(j) ==
    LET nj == Deserialize(nextjob, now)
    IN  IF nj.Name = NULL_JOBNAME
        THEN IF j.HasError THEN "scan" ELSE "set"
        ELSE IF nj.Name # j.Name THEN "keep"
        ELSE IF j.HasError THEN "scan"
        ELSE "set"

\* history: one more dispatch of job j by server s; the history of a name
\* starts again when the name is dispatched for another instant
Dispatched(s, j) ==
    LET old == runs[j.Name]
    IN  IF "runs" \notin hist THEN runs
        ELSE [runs EXCEPT ![j.Name] =
                IF old.at = j.NextRuntime
                THEN [at |-> old.at, by |-> old.by \cup {s},
                      n |-> IF old.n < MaxRuns THEN old.n + 1 ELSE old.n]
                ELSE [at |-> j.NextRuntime, by |-> {s}, n |-> 1]]

\* history: the znode of name n has changed, which forgets the acknowledgement
Forget(n) == IF "acked" \in hist THEN [acked EXCEPT ![n] = NoAck] ELSE acked

\* history: the CLI mutation o of job j has returned success
Acknowledge(o, j) ==
    IF "acked" \in hist THEN [acked EXCEPT ![j.Name] = [kind |-> o, job |-> j]] ELSE acked

----------------------------------------------------------------------------
\* the servers SS are in their loop, and no membership monitor is running
MonitorOff(SS) ==
    /\ isRunning = [s \in Servers |-> s \in SS]
    /\ monitor = [s \in Servers |-> "none"]
    /\ srvWatch = [s \in Servers |-> "none"]
    /\ serverMap = [s \in Servers |-> NoCounts]
    /\ mapUpdCount = [s \in Servers |-> 0]
    /\ allServers = [s \in Servers |-> {}]
    /\ newServers = [s \in Servers |-> {}]
    /\ deletedServers = [s \in Servers |-> {}]
    /\ lastServers = [s \in Servers |-> {}]

InitWith(SS, H) ==
    /\ now = 1
    /\ jobsZk = NoJobs
    /\ nextjob = << >>
    /\ lockOwner = "none"
    /\ hasLock = [p \in Procs |-> FALSE]
    /\ pc = [p \in Procs |-> IF p \in SS THEN "getw" ELSE IF p \in Servers THEN "stopped" ELSE "idle"]
    /\ job = [p \in Procs |-> ZeroJob]
    /\ watch = [s \in Servers |-> "none"]
    /\ res = [c \in Clis |-> "none"]
    /\ op = [c \in Clis |-> "none"]
    /\ listed = [c \in Clis |-> << >>]
    /\ runs = NoRuns
    /\ acked = [n \in JobNames |-> NoAck]
    /\ hist = H
    /\ serversZk = [n \in SS |-> n]
    /\ serverName = [s \in Servers |-> IF s \in SS THEN s ELSE ""]
    /\ znodes = AllPaths
    /\ initAt = [p \in Procs |-> 0]
    /\ MonitorOff(SS)

\* time passes
Tick ==
    /\ now < MaxTime
    /\ now' = now + 1
    /\ UNCHANGED <<jobsZk, nextjob, lockOwner, hasLock, pc, job, watch, res, op, listed, runs, acked, hist, serversZk, serverName, znodes, initAt, monVars>>

----------------------------------------------------------------------------
\* The scheduler loop of a server (Run)

\* a test that finds every job ready
AlwaysReady(j, t) == TRUE

\* step 2: the job is ready to run unless its NextRuntime is after now
Ready(j, t) == ~(j.NextRuntime > t)

\* steps 1 to 5 of one iteration: read /nextjob and set the watch, then sleep,
\* ask for the lock, or start the job; the job that makes the server ask for
\* the lock stays in its job variable until the next read. The owner of the
\* lock starts the job in the step of its read, no other process writing
\* /nextjob while the lock is held; a server whose flag is set while the lock
\* is not its own starts the job in a later step, RunJob
GetNextjob(s) ==
    /\ pc[s] = "getw"
    /\ LET j == Deserialize(nextjob, now)
       IN  IF ~Ready(j, now)
           THEN /\ lockOwner' = LockAfterRelease(s)
                /\ hasLock' = FlagAfterRelease(s)
                /\ IF UnlockOk(s)
                   THEN /\ pc' = [pc EXCEPT ![s] = "wait"]
                        /\ job' = [job EXCEPT ![s] = j]
                        /\ watch' = [watch EXCEPT ![s] = "armed"]
                   ELSE /\ pc' = [pc EXCEPT ![s] = "exited"]
                        /\ job' = [job EXCEPT ![s] = ZeroJob]
                        /\ watch' = [watch EXCEPT ![s] = "none"]
                /\ UNCHANGED runs
           ELSE IF ~hasLock[s]
           THEN /\ pc' = [pc EXCEPT ![s] = "lock"]
                /\ job' = [job EXCEPT ![s] = j]
                /\ watch' = [watch EXCEPT ![s] = "none"]
                /\ UNCHANGED <<lockOwner, hasLock, runs>>
           ELSE IF lockOwner = s
           THEN /\ runs' = Dispatched(s, j)
                /\ pc' = [pc EXCEPT ![s] = "resched"]
                /\ job' = [job EXCEPT ![s] = j]
                /\ watch' = [watch EXCEPT ![s] = "none"]
                /\ UNCHANGED <<lockOwner, hasLock>>
           ELSE /\ pc' = [pc EXCEPT ![s] = "run"]
                /\ job' = [job EXCEPT ![s] = j]
                /\ watch' = [watch EXCEPT ![s] = "none"]
                /\ UNCHANGED <<lockOwner, hasLock, runs>>
    /\ UNCHANGED <<now, jobsZk, nextjob, res, op, listed, acked, hist, serversZk, serverName, znodes, initAt, monVars>>

\* step 5, go job.Run(), of a server that read /nextjob while its flag was set
\* and the lock was not its own
RunJob(s) ==
    /\ pc[s] = "run"
    /\ runs' = Dispatched(s, job[s])
    /\ pc' = [pc EXCEPT ![s] = "resched"]
    /\ UNCHANGED <<now, jobsZk, nextjob, lockOwner, hasLock, job, watch, res, op, listed, acked, hist, serversZk, serverName, znodes, initAt, monVars>>

\* a select that takes an error event for a notification and reads again
WaitWakeIgnoresError(s) ==
    /\ pc[s] = "wait"
    /\ (watch[s] \in {"fired", "err"} \/ now >= job[s].NextRuntime)
    /\ pc' = [pc EXCEPT ![s] = "getw"]
    /\ job' = [job EXCEPT ![s] = ZeroJob]
    /\ watch' = [watch EXCEPT ![s] = "none"]
    /\ UNCHANGED <<now, jobsZk, nextjob, lockOwner, hasLock, res, op, listed, runs, acked, hist, serversZk, serverName, znodes, initAt, monVars>>

\* the select of step 2: the watch event or the timer, whichever comes first
WaitWake(s) ==
    /\ pc[s] = "wait"
    /\ \/ /\ watch[s] = "fired"
          /\ pc' = [pc EXCEPT ![s] = "getw"]
       \/ /\ watch[s] = "err"
          /\ pc' = [pc EXCEPT ![s] = "exited"]
       \/ /\ now >= job[s].NextRuntime
          /\ pc' = [pc EXCEPT ![s] = "getw"]
    /\ job' = [job EXCEPT ![s] = ZeroJob]
    /\ watch' = [watch EXCEPT ![s] = "none"]
    /\ UNCHANGED <<now, jobsZk, nextjob, lockOwner, hasLock, res, op, listed, runs, acked, hist, serversZk, serverName, znodes, initAt, monVars>>

\* getJobsLock: zk.Lock.Lock returns once the lock is free
getJobsLock(p) ==
    /\ ~hasLock[p]
    /\ lockOwner = "none"
    /\ lockOwner' = p
    /\ hasLock' = [hasLock EXCEPT ![p] = TRUE]

\* steps 3 and 4: the server is granted the lock and goes back to read /nextjob
ServerLock(s) ==
    /\ pc[s] = "lock"
    /\ getJobsLock(s)
    /\ pc' = [pc EXCEPT ![s] = "getw"]
    /\ UNCHANGED <<now, jobsZk, nextjob, job, watch, res, op, listed, runs, acked, hist, serversZk, serverName, znodes, initAt, monVars>>

\* an updateSchedule whose store of the job creates the znode when it is missing
ReschedCreates(s) ==
    /\ pc[s] = "resched"
    /\ LET r == SetNextRuntime(job[s], now)
       IN  IF r.err \/ ~r.changed
           THEN /\ job' = [job EXCEPT ![s] = [r.job EXCEPT !.HasError = TRUE]]
                /\ pc' = [pc EXCEPT ![s] = "setnext"]
                /\ UNCHANGED <<jobsZk, lockOwner, hasLock, acked>>
           ELSE /\ jobsZk' = WriteToZkData(r.job)
                /\ acked' = Forget(r.job.Name)
                /\ job' = [job EXCEPT ![s] = r.job]
                /\ pc' = [pc EXCEPT ![s] = "setnext"]
                /\ UNCHANGED <<lockOwner, hasLock>>
    /\ UNCHANGED <<now, nextjob, watch, res, op, listed, runs, hist, serversZk, serverName, znodes, initAt, monVars>>

\* updateSchedule, first half: the next run time of the job just started
Resched(s) ==
    /\ pc[s] = "resched"
    /\ LET r == SetNextRuntime(job[s], now)
       IN  IF r.err \/ ~r.changed
           THEN /\ job' = [job EXCEPT ![s] = [r.job EXCEPT !.HasError = TRUE]]
                /\ pc' = [pc EXCEPT ![s] = "setnext"]
                /\ UNCHANGED <<jobsZk, lockOwner, hasLock, acked>>
           ELSE IF UpdateZkOk(r.job)
           THEN /\ jobsZk' = UpdateZkData(r.job)
                /\ acked' = Forget(r.job.Name)
                /\ job' = [job EXCEPT ![s] = r.job]
                /\ pc' = [pc EXCEPT ![s] = "setnext"]
                /\ UNCHANGED <<lockOwner, hasLock>>
           ELSE /\ lockOwner' = LockAfterRelease(s)
                /\ hasLock' = FlagAfterRelease(s)
                /\ job' = [job EXCEPT ![s] = ZeroJob]
                /\ pc' = [pc EXCEPT ![s] = "exited"]
                /\ UNCHANGED <<jobsZk, acked>>
    /\ UNCHANGED <<now, nextjob, watch, res, op, listed, runs, hist, serversZk, serverName, znodes, initAt, monVars>>

\* updateSchedule, second half: setNextjob
SetNext(s) ==
    /\ pc[s] = "setnext"
    /\ \E order \in Orders(DOMAIN jobsZk) :
          /\ nextjob' = SetNextjobData(order)
          /\ watch' = IF SetNextjobWrites(order) THEN FireWatches ELSE watch
    /\ pc' = [pc EXCEPT ![s] = "unlock"]
    /\ job' = [job EXCEPT ![s] = ZeroJob]
    /\ UNCHANGED <<now, jobsZk, lockOwner, hasLock, res, op, listed, runs, acked, hist, serversZk, serverName, znodes, initAt, monVars>>

\* updateSchedule, the end: releaseJobsLock
ServerUnlock(s) ==
    /\ pc[s] = "unlock"
    /\ lockOwner' = LockAfterRelease(s)
    /\ hasLock' = FlagAfterRelease(s)
    /\ pc' = [pc EXCEPT ![s] = IF UnlockOk(s) THEN "getw" ELSE "exited"]
    /\ UNCHANGED <<now, jobsZk, nextjob, job, watch, res, op, listed, runs, acked, hist, serversZk, serverName, znodes, initAt, monVars>>

\* Run has returned an error: main returns and the deferred Stop closes the session
Stop(s) ==
    /\ pc[s] = "exited"
    /\ pc' = [pc EXCEPT ![s] = "stopped"]
    /\ lockOwner' = LockAfterSessionEnd(s)
    /\ hasLock' = [hasLock EXCEPT ![s] = FALSE]
    /\ serversZk' = ServersWithout(s)
    /\ serverName' = [serverName EXCEPT ![s] = ""]
    /\ UNCHANGED <<now, jobsZk, nextjob, job, watch, res, op, listed, runs, acked, hist, znodes, initAt>>
    /\ ProcessEnds(s, ServersWithout(s))

\* the server process is killed
Crash(s) ==
    /\ pc[s] \notin {"dead", "stopped"}
    /\ pc' = [pc EXCEPT ![s] = "dead"]
    /\ hasLock' = [hasLock EXCEPT ![s] = FALSE]
    /\ job' = [job EXCEPT ![s] = ZeroJob]
    /\ watch' = [watch EXCEPT ![s] = "none"]
    /\ serverName' = [serverName EXCEPT ![s] = ""]
    /\ UNCHANGED <<now, jobsZk, nextjob, lockOwner, res, op, listed, runs, acked, hist, serversZk, znodes, initAt>>
    /\ ProcessEnds(s, serversZk)

\* the session of a killed process times out: the store drops its lock node
\* and its ephemeral nodes
SessionTimeout(p) ==
    /\ pc[p] = "dead"
    /\ SessionLeft(p)
    /\ lockOwner' = LockAfterSessionEnd(p)
    /\ serversZk' = ServersWithout(p)
    /\ UNCHANGED <<now, jobsZk, nextjob, hasLock, pc, job, watch, res, op, listed, runs, acked, hist, serverName, znodes, initAt>>
    /\ srvWatch' = FireServerWatches(ServersWithout(p))
    /\ UNCHANGED <<isRunning, monitor, serverMap, mapUpdCount, allServers, newServers, deletedServers, lastServers>>

\* a setServerName that takes every name
NeverRefused(name, force) == FALSE

\* setServerName: the name is refused when /servers/<name> exists and force
\* is not set
NameRefused(name, force) == name \in DOMAIN serversZk /\ ~force

\* setServerName: /servers after the Create of the ephemeral node by process s
ServersWith(s, name) ==
    [n \in DOMAIN serversZk \cup {name} |-> IF n = name THEN s ELSE serversZk[n]]

\* the server is started again under its own name, which no other server
\* uses, once the session of its last run is gone: main, Init and the start
\* of Run
ServerStart(s) ==
    /\ pc[s] \in {"dead", "stopped"}
    /\ ~SessionLeft(s)
    /\ ~NameRefused(s, FALSE)
    /\ serversZk' = ServersWith(s, s)
    /\ serverName' = [serverName EXCEPT ![s] = s]
    /\ pc' = [pc EXCEPT ![s] = AfterSetServerName]
    /\ isRunning' = [isRunning EXCEPT ![s] = ~Monitored]
    /\ srvWatch' = FireServerWatches(ServersWith(s, s))
    /\ UNCHANGED <<now, jobsZk, nextjob, lockOwner, hasLock, job, watch, res, op, listed, runs, acked, hist, znodes, initAt>>
    /\ UNCHANGED <<monitor, serverMap, mapUpdCount, allServers, newServers, deletedServers, lastServers>>

\* main, Init and the start of Run for a server given a name and the force
\* flag, which the place of the server keeps
StartRun(s, name, force) ==
    /\ pc[s] \in {"dead", "stopped"}
    /\ ~SessionLeft(s)
    /\ serverName' = [serverName EXCEPT ![s] = name]
    /\ pc' = [pc EXCEPT ![s] = IF force THEN "existsF" ELSE "exists"]
    /\ UNCHANGED <<now, jobsZk, nextjob, lockOwner, hasLock, job, watch, res, op, listed, runs, acked, hist, serversZk, znodes, initAt, monVars>>

\* setServerName: the Exists of /servers/<name>
CheckName(s) ==
    /\ pc[s] \in {"exists", "existsF"}
    /\ pc' = [pc EXCEPT ![s] =
                IF NameRefused(serverName[s], pc[s] = "existsF") THEN "exited"
                ELSE IF serverName[s] \in DOMAIN serversZk THEN "delname"
                ELSE IF pc[s] = "existsF" THEN "createF" ELSE "create"]
    /\ UNCHANGED <<now, jobsZk, nextjob, lockOwner, hasLock, job, watch, res, op, listed, runs, acked, hist, serversZk, serverName, znodes, initAt, monVars>>

\* setServerName with force: the Delete of the node found, its error ignored
DeleteName(s) ==
    /\ pc[s] = "delname"
    /\ serversZk' = [n \in DOMAIN serversZk \ {serverName[s]} |-> serversZk[n]]
    /\ pc' = [pc EXCEPT ![s] = "createF"]
    /\ UNCHANGED <<now, jobsZk, nextjob, lockOwner, hasLock, job, watch, res, op, listed, runs, acked, hist, serverName, znodes, initAt>>
    /\ srvWatch' = FireServerWatches(serversZk')
    /\ UNCHANGED <<isRunning, monitor, serverMap, mapUpdCount, allServers, newServers, deletedServers, lastServers>>

\* setServerName: the Create of the ephemeral node, refused when the node
\* exists; then reportServers and the loop
CreateName(s) ==
    /\ pc[s] \in {"create", "createF"}
    /\ IF serverName[s] \in DOMAIN serversZk
       THEN /\ pc' = [pc EXCEPT ![s] = "exited"]
            /\ UNCHANGED <<serversZk, isRunning, srvWatch>>
       ELSE /\ pc' = [pc EXCEPT ![s] = AfterSetServerName]
            /\ isRunning' = [isRunning EXCEPT ![s] = ~Monitored]
            /\ serversZk' = ServersWith(s, serverName[s])
            /\ srvWatch' = FireServerWatches(ServersWith(s, serverName[s]))
    /\ UNCHANGED <<now, jobsZk, nextjob, lockOwner, hasLock, job, watch, res, op, listed, runs, acked, hist, serverName, znodes, initAt>>
    /\ UNCHANGED <<monitor, serverMap, mapUpdCount, allServers, newServers, deletedServers, lastServers>>

\* the Zookeeper session of a running server expires: the store drops its lock
\* node and its watch, the client library sends the watch an error event and
\* opens a new session; a request in flight fails, and nothing else tells the
\* server, whose hasLock flag stays as it is
ServerSessionExpire(s) ==
    /\ pc[s] \in {"getw", "wait", "lock", "resched", "setnext", "unlock"}
    /\ lockOwner' = LockAfterSessionEnd(s)
    /\ watch' = [watch EXCEPT ![s] = IF watch[s] = "armed" THEN "err" ELSE watch[s]]
    /\ \/ /\ pc[s] # "lock"
          /\ UNCHANGED pc
       \/ /\ pc[s] # "wait"
          /\ pc' = [pc EXCEPT ![s] = "exited"]
    /\ serversZk' = ServersWithout(s)
    /\ UNCHANGED <<now, jobsZk, nextjob, hasLock, job, res, op, listed, runs, acked, hist, serverName, znodes, initAt>>
    /\ srvWatch' = [FireServerWatches(ServersWithout(s)) EXCEPT
                       ![s] = IF srvWatch[s] = "armed" THEN "err" ELSE srvWatch[s]]
    /\ UNCHANGED <<isRunning, monitor, serverMap, mapUpdCount, allServers, newServers, deletedServers, lastServers>>

ServerStep(s) ==
    \/ GetNextjob(s)
    \/ WaitWake(s)
    \/ ServerLock(s)
    \/ Resched(s)
    \/ SetNext(s)
    \/ ServerUnlock(s)

----------------------------------------------------------------------------
\* The membership monitor (reportServers)

\* a Go map read: the zero value for a name that is not in the map
ServerCount(m, server) == IF server \in DOMAIN m THEN m[server] ELSE 0

\* the first loop over the snapshot: the names that are new, the server's own
\* name left out
NewServers(m, snap, own) == {server \in snap : ServerCount(m, server) = 0 /\ server # own}

\* the first loop over the snapshot: every name read gets the count of this
\* snapshot
Marked(m, snap, cnt) ==
    [server \in DOMAIN m \cup snap |-> IF server \in snap THEN cnt ELSE m[server]]

\* a second loop that finds no name stopped
NoneDeleted(m, cnt) == {}

\* the second loop, over the map: the names whose count did not advance
DeletedServers(m, cnt) == {server \in DOMAIN m : m[server] # cnt}

\* the second loop deletes from the map the names it found stopped
Remaining(m, cnt) == [server \in DOMAIN m \ DeletedServers(m, cnt) |-> m[server]]

\* reportServers up to the go statement: the first ChildrenW, the map filled
\* from it, and the goroutine started
ReportServers(s) ==
    /\ pc[s] = "report"
    /\ LET snap == DOMAIN serversZk
       IN  /\ allServers' = [allServers EXCEPT ![s] = snap]
           /\ serverMap' = [serverMap EXCEPT ![s] = [server \in snap |-> 1]]
    /\ mapUpdCount' = [mapUpdCount EXCEPT ![s] = 1]
    /\ srvWatch' = [srvWatch EXCEPT ![s] = "armed"]
    /\ monitor' = [monitor EXCEPT ![s] = "test"]
    /\ pc' = [pc EXCEPT ![s] = "setrun"]
    /\ UNCHANGED <<now, jobsZk, nextjob, lockOwner, hasLock, job, watch, res, op, listed, runs, acked, hist, serversZk, serverName, znodes, initAt>>
    /\ UNCHANGED <<isRunning, newServers, deletedServers, lastServers>>

\* Run: isRunning = true, after reportServers has returned
SetRunning(s) ==
    /\ pc[s] = "setrun"
    /\ isRunning' = [isRunning EXCEPT ![s] = TRUE]
    /\ pc' = [pc EXCEPT ![s] = "getw"]
    /\ UNCHANGED <<now, jobsZk, nextjob, lockOwner, hasLock, job, watch, res, op, listed, runs, acked, hist, serversZk, serverName, znodes, initAt>>
    /\ UNCHANGED <<monitor, srvWatch, serverMap, mapUpdCount, allServers, newServers, deletedServers, lastServers>>

\* the goroutine: the test of its loop, for isRunning, which reads the flag
\* with no synchronisation with Run
MonitorTest(s) ==
    /\ monitor[s] = "test"
    /\ monitor' = [monitor EXCEPT ![s] = IF isRunning[s] THEN "recv" ELSE "ended"]
    /\ UNCHANGED <<now, jobsZk, nextjob, lockOwner, hasLock, pc, job, watch, res, op, listed, runs, acked, hist, serversZk, serverName, znodes, initAt>>
    /\ UNCHANGED <<isRunning, srvWatch, serverMap, mapUpdCount, allServers, newServers, deletedServers, lastServers>>

\* the goroutine: evt := <-watch, and the loop left on an error event
MonitorRecv(s) ==
    /\ monitor[s] = "recv"
    /\ srvWatch[s] \in {"fired", "err"}
    /\ monitor' = [monitor EXCEPT ![s] = IF srvWatch[s] = "err" THEN "ended" ELSE "read"]
    /\ srvWatch' = [srvWatch EXCEPT ![s] = "none"]
    /\ UNCHANGED <<now, jobsZk, nextjob, lockOwner, hasLock, pc, job, watch, res, op, listed, runs, acked, hist, serversZk, serverName, znodes, initAt>>
    /\ UNCHANGED <<isRunning, serverMap, mapUpdCount, allServers, newServers, deletedServers, lastServers>>

\* the goroutine: the next ChildrenW and the two loops over its result
MonitorRead(s) ==
    /\ monitor[s] = "read"
    /\ mapUpdCount[s] < MaxUpdCount
    /\ LET snap == DOMAIN serversZk
           cnt == mapUpdCount[s] + 1
           m == Marked(serverMap[s], snap, cnt)
       IN  /\ allServers' = [allServers EXCEPT ![s] = snap]
           /\ lastServers' = [lastServers EXCEPT ![s] = allServers[s]]
           /\ mapUpdCount' = [mapUpdCount EXCEPT ![s] = cnt]
           /\ newServers' = [newServers EXCEPT ![s] = NewServers(serverMap[s], snap, serverName[s])]
           /\ deletedServers' = [deletedServers EXCEPT ![s] = DeletedServers(m, cnt)]
           /\ serverMap' = [serverMap EXCEPT ![s] = Remaining(m, cnt)]
    /\ srvWatch' = [srvWatch EXCEPT ![s] = "armed"]
    /\ monitor' = [monitor EXCEPT ![s] = "test"]
    /\ UNCHANGED <<now, jobsZk, nextjob, lockOwner, hasLock, pc, job, watch, res, op, listed, runs, acked, hist, serversZk, serverName, znodes, initAt>>
    /\ UNCHANGED isRunning

MonitorStep(s) ==
    \/ ReportServers(s)
    \/ SetRunning(s)
    \/ MonitorTest(s)
    \/ MonitorRecv(s)
    \/ MonitorRead(s)

----------------------------------------------------------------------------
\* The job-maintenance CLI

\* buildJobFromArgs
buildJobFromArgs(name, sched, cmd) ==
    SetNextRuntime([ZeroJob EXCEPT !.Name = name, !.Schedule = sched, !.Cmd = cmd], now)

\* AddCommand and UpdCommand up to the call of WriteToZk or UpdateZk
CliAddUpd(c, o, name, sched, cmd) ==
    /\ pc[c] = "idle"
    /\ o \in {"add", "upd"}
    /\ LET b == buildJobFromArgs(name, sched, cmd)
       IN  /\ job' = [job EXCEPT ![c] = b.job]
           /\ op' = [op EXCEPT ![c] = o]
           /\ IF b.err
              THEN /\ pc' = [pc EXCEPT ![c] = "done"]
                   /\ res' = [res EXCEPT ![c] = "err"]
              ELSE /\ pc' = [pc EXCEPT ![c] = "lock"]
                   /\ res' = [res EXCEPT ![c] = "none"]
    /\ UNCHANGED <<now, jobsZk, nextjob, lockOwner, hasLock, watch, listed, runs, acked, hist, serversZk, serverName, znodes, initAt, monVars>>

\* DelCommand up to the call of DeleteFromZk
CliDel(c, name) ==
    /\ pc[c] = "idle"
    /\ job' = [job EXCEPT ![c] = [ZeroJob EXCEPT !.Name = name]]
    /\ op' = [op EXCEPT ![c] = "del"]
    /\ pc' = [pc EXCEPT ![c] = "lock"]
    /\ res' = [res EXCEPT ![c] = "none"]
    /\ UNCHANGED <<now, jobsZk, nextjob, lockOwner, hasLock, watch, listed, runs, acked, hist, serversZk, serverName, znodes, initAt, monVars>>

\* WriteToZk, UpdateZk, DeleteFromZk: the lock is taken
CliLock(c) ==
    /\ pc[c] = "lock"
    /\ getJobsLock(c)
    /\ pc' = [pc EXCEPT ![c] = "write"]
    /\ UNCHANGED <<now, jobsZk, nextjob, job, watch, res, op, listed, runs, acked, hist, serversZk, serverName, znodes, initAt, monVars>>

\* WriteToZk, UpdateZk, DeleteFromZk: the znode of the job is created, set or deleted
CliWrite(c) ==
    /\ pc[c] = "write"
    /\ LET j == job[c]
           ok == CASE op[c] = "add" -> WriteToZkOk(j)
                   [] op[c] = "upd" -> UpdateZkOk(j)
                   [] OTHER -> DeleteFromZkOk(j)
       IN  IF ok
           THEN /\ jobsZk' = CASE op[c] = "add" -> WriteToZkData(j)
                               [] op[c] = "upd" -> UpdateZkData(j)
                               [] OTHER -> DeleteFromZkData(j)
                /\ acked' = Forget(j.Name)
                /\ pc' = [pc EXCEPT ![c] = "check"]
                /\ UNCHANGED res
           ELSE /\ pc' = [pc EXCEPT ![c] = "unlock"]
                /\ res' = [res EXCEPT ![c] = "err"]
                /\ UNCHANGED <<jobsZk, acked>>
    /\ UNCHANGED <<now, nextjob, lockOwner, hasLock, job, watch, op, listed, runs, hist, serversZk, serverName, znodes, initAt, monVars>>

\* the job handed to checkForNextjobUpdate: a deleted job carries HasError
ChangedJob(c) == IF op[c] = "del" THEN [job[c] EXCEPT !.HasError = TRUE] ELSE job[c]

\* the CLI mutation reconciles /nextjob while it still holds the lock
CliCheck(c) ==
    /\ pc[c] = "check"
    /\ LET what == checkForNextjobUpdate(ChangedJob(c))
       IN  \/ /\ what = "set"
              /\ nextjob' = UpdateZkNextjob(ChangedJob(c))
              /\ watch' = FireWatches
           \/ /\ what = "scan"
              /\ \E order \in Orders(DOMAIN jobsZk) :
                    /\ nextjob' = SetNextjobData(order)
                    /\ watch' = IF SetNextjobWrites(order) THEN FireWatches ELSE watch
           \/ /\ what = "keep"
              /\ UNCHANGED <<nextjob, watch>>
    /\ pc' = [pc EXCEPT ![c] = "unlock"]
    /\ res' = [res EXCEPT ![c] = "ok"]
    /\ UNCHANGED <<now, jobsZk, lockOwner, hasLock, job, op, listed, runs, acked, hist, serversZk, serverName, znodes, initAt, monVars>>

\* the deferred releaseJobsLock, and the command returns
CliUnlock(c) ==
    /\ pc[c] = "unlock"
    /\ lockOwner' = LockAfterRelease(c)
    /\ hasLock' = FlagAfterRelease(c)
    /\ pc' = [pc EXCEPT ![c] = "done"]
    /\ acked' = IF res[c] = "ok" THEN Acknowledge(op[c], job[c]) ELSE acked
    /\ UNCHANGED <<now, jobsZk, nextjob, job, watch, res, op, listed, runs, hist, serversZk, serverName, znodes, initAt, monVars>>

\* the names ListJobs reads: the one asked for, or all children sorted
ListNames(name) ==
    IF name # "" THEN <<name>>
    ELSE CHOOSE o \in Orders(DOMAIN jobsZk) :
            \A i, k \in 1..Len(o) : i < k => NameRank(o[i]) < NameRank(o[k])

\* ListJobs
ListJobs(name) ==
    LET names == ListNames(name)
    IN  IF \E i \in 1..Len(names) : names[i] \notin DOMAIN jobsZk
        THEN [err |-> TRUE, jobs |-> << >>]
        ELSE [err |-> FALSE,
              jobs |-> [i \in 1..Len(names) |-> Deserialize(jobsZk[names[i]], now)]]

\* ListCommand
CliList(c, name) ==
    /\ pc[c] = "idle"
    /\ LET l == ListJobs(name)
       IN  /\ listed' = [listed EXCEPT ![c] = l.jobs]
           /\ res' = [res EXCEPT ![c] = IF l.err THEN "err" ELSE "ok"]
    /\ op' = [op EXCEPT ![c] = "list"]
    /\ job' = [job EXCEPT ![c] = [ZeroJob EXCEPT !.Name = name]]
    /\ pc' = [pc EXCEPT ![c] = "done"]
    /\ UNCHANGED <<now, jobsZk, nextjob, lockOwner, hasLock, watch, runs, acked, hist, serversZk, serverName, znodes, initAt, monVars>>

\* the CLI process ends; the next command is a new process
CliExit(c) ==
    /\ pc[c] = "done"
    /\ pc' = [pc EXCEPT ![c] = "idle"]
    /\ job' = [job EXCEPT ![c] = ZeroJob]
    /\ op' = [op EXCEPT ![c] = "none"]
    /\ res' = [res EXCEPT ![c] = "none"]
    /\ listed' = [listed EXCEPT ![c] = << >>]
    /\ hasLock' = [hasLock EXCEPT ![c] = FALSE]
    /\ lockOwner' = LockAfterSessionEnd(c)
    /\ UNCHANGED <<now, jobsZk, nextjob, watch, runs, acked, hist, serversZk, serverName, znodes, initAt, monVars>>

\* the Zookeeper session of a running command expires: as for a server
CliSessionExpire(c) ==
    /\ pc[c] \in {"lock", "write", "check", "unlock"}
    /\ lockOwner' = LockAfterSessionEnd(c)
    /\ \/ /\ pc[c] # "lock"
          /\ UNCHANGED <<pc, res>>
       \/ /\ pc' = [pc EXCEPT ![c] = "unlock"]
          /\ res' = [res EXCEPT ![c] = "err"]
    /\ UNCHANGED <<now, jobsZk, nextjob, hasLock, job, watch, op, listed, runs, acked, hist, serversZk, serverName, znodes, initAt, monVars>>

CliStep(c, NN) ==
    \/ \E o \in {"add", "upd"}, name \in NN, sched \in Schedules, cmd \in Cmds :
          CliAddUpd(c, o, name, sched, cmd)
    \/ \E name \in NN : CliDel(c, name)
    \/ \E name \in NN \cup {""} : CliList(c, name)
    \/ CliLock(c)
    \/ CliWrite(c)
    \/ CliCheck(c)
    \/ CliUnlock(c)
    \/ CliExit(c)

----------------------------------------------------------------------------
\* Specifications

Core(SS, CC, NN) ==
    \/ Tick
    \/ \E s \in SS : ServerStep(s)
    \/ \E c \in CC : CliStep(c, NN)

Churn(SS) ==
    \/ \E s \in SS : Crash(s)
    \/ \E s \in SS : SessionTimeout(s)
    \/ \E s \in SS : Stop(s)
    \/ \E s \in SS : ServerStart(s)

\* one server and one CLI process at a time, over the whole catalog
Next_ == Core({"s1"}, {"c1"}, JobNames)

Spec == InitWith({"s1"}, {"acked"}) /\ [][Next_]_vars

\* two servers and one CLI process at a time, over one job name
NextFleet == Core(Servers, {"c1"}, {"a"})

SpecFleet == InitWith(Servers, {"runs"}) /\ [][NextFleet]_vars

\* one server and one CLI process at a time over one job name, with process
\* kills, restarts and session expiry
NextFaults ==
    \/ Core({"s1"}, {"c1"}, {"a"})
    \/ RunJob("s1")
    \/ Churn({"s1"})
    \/ ServerSessionExpire("s1")
    \/ CliSessionExpire("c1")

SpecFaults == InitWith({"s1"}, {}) /\ [][NextFaults]_vars

\* setNextjob as a function of the catalog: the server holds the lock and is
\* about to call setNextjob over a catalog drawn from the records a /jobs node
\* can hold
InitHead ==
    /\ now = 1
    /\ \E S \in SUBSET JobNames :
          \E hs \in [S -> BOOLEAN], ts \in [S -> 1..MaxTime] :
             jobsZk = [n \in S |->
                         Serialize([ZeroJob EXCEPT !.Name = n, !.Cmd = "/bin/true",
                                                   !.Schedule = "every",
                                                   !.HasError = hs[n],
                                                   !.NextRuntime = ts[n]])]
    /\ nextjob = << >>
    /\ lockOwner = "s1"
    /\ hasLock = [p \in Procs |-> p = "s1"]
    /\ pc = [p \in Procs |-> IF p = "s1" THEN "setnext" ELSE IF p \in Servers THEN "stopped" ELSE "idle"]
    /\ job = [p \in Procs |-> ZeroJob]
    /\ watch = [s \in Servers |-> "none"]
    /\ res = [c \in Clis |-> "none"]
    /\ op = [c \in Clis |-> "none"]
    /\ listed = [c \in Clis |-> << >>]
    /\ runs = NoRuns
    /\ acked = [n \in JobNames |-> NoAck]
    /\ hist = {}
    /\ serversZk = [n \in {"s1"} |-> n]
    /\ serverName = [s \in Servers |-> IF s = "s1" THEN s ELSE ""]
    /\ znodes = AllPaths
    /\ initAt = [p \in Procs |-> 0]
    /\ MonitorOff({"s1"})

NextHead == Tick \/ ServerStep("s1")

SpecHead == InitHead /\ [][NextHead]_vars

\* a server that stays alive, a server that is killed and started again, and
\* a CLI process at a time that adds jobs; every process that can take a step
\* again and again takes it in the end, the lock queue of the store being fair
CliAddStep(c) ==
    \/ \E name \in JobNames, sched \in {"every", "once"}, cmd \in Cmds :
          CliAddUpd(c, "add", name, sched, cmd)
    \/ CliLock(c)
    \/ CliWrite(c)
    \/ CliCheck(c)
    \/ CliUnlock(c)
    \/ CliExit(c)

CliProgress(c) == CliLock(c) \/ CliWrite(c) \/ CliCheck(c) \/ CliUnlock(c) \/ CliExit(c)

NextLive ==
    \/ Tick
    \/ ServerStep("s1")
    \/ ServerStep("s2")
    \/ Crash("s2")
    \/ SessionTimeout("s2")
    \/ ServerStart("s2")
    \/ CliAddStep("c1")

SpecLive ==
    /\ InitWith({"s1"}, {})
    /\ [][NextLive]_vars
    /\ WF_vars(Tick)
    /\ SF_vars(ServerStep("s1"))
    /\ SF_vars(ServerStep("s2"))
    /\ SF_vars(CliProgress("c1"))
    /\ WF_vars(SessionTimeout("s2"))

\* two CLI processes at a time over one job name
NextAdds == Tick \/ \E c \in Clis : CliStep(c, {"a"})

SpecAdds == InitWith({}, {}) /\ [][NextAdds]_vars

\* the codec as a function: a process holds any Job value, serializes it into
\* a byte array and deserializes the array again
JobValues ==
    [Name : {"", "a", "b"}, Cmd : {"", "/bin/true"}, Args : {<<>>, <<"-v">>},
     HasError : BOOLEAN, NextRuntime : ZeroTime..MaxTime,
     Schedule : {"", "every", "once", "notacron"}]

InitCodec ==
    /\ now = 1
    /\ jobsZk = NoJobs
    /\ nextjob = << >>
    /\ lockOwner = "none"
    /\ hasLock = [p \in Procs |-> FALSE]
    /\ pc = [p \in Procs |-> IF p = "c1" THEN "serialize" ELSE IF p \in Servers THEN "stopped" ELSE "idle"]
    /\ \E j \in JobValues : job = [p \in Procs |-> IF p = "c1" THEN j ELSE ZeroJob]
    /\ watch = [s \in Servers |-> "none"]
    /\ res = [c \in Clis |-> "none"]
    /\ op = [c \in Clis |-> "none"]
    /\ listed = [c \in Clis |-> << >>]
    /\ runs = NoRuns
    /\ acked = [n \in JobNames |-> NoAck]
    /\ hist = {}
    /\ serversZk = NoServers
    /\ serverName = [s \in Servers |-> ""]
    /\ znodes = AllPaths
    /\ initAt = [p \in Procs |-> 0]
    /\ MonitorOff({})

\* b = job.Serialize(), the array kept in the variable nextjob
SerializeStep(c) ==
    /\ pc[c] = "serialize"
    /\ nextjob' = Serialize(job[c])
    /\ pc' = [pc EXCEPT ![c] = "deserialize"]
    /\ UNCHANGED <<now, jobsZk, lockOwner, hasLock, job, watch, res, op, listed, runs, acked, hist, serversZk, serverName, znodes, initAt, monVars>>

\* Deserialize(b), the job kept in the variable listed
DeserializeStep(c) ==
    /\ pc[c] = "deserialize"
    /\ listed' = [listed EXCEPT ![c] = <<Deserialize(nextjob, now)>>]
    /\ pc' = [pc EXCEPT ![c] = "decoded"]
    /\ UNCHANGED <<now, jobsZk, nextjob, lockOwner, hasLock, job, watch, res, op, runs, acked, hist, serversZk, serverName, znodes, initAt, monVars>>

NextCodec == Tick \/ SerializeStep("c1") \/ DeserializeStep("c1")

SpecCodec == InitCodec /\ [][NextCodec]_vars

\* servers started under names of their choice, with or without force, that
\* are killed, stop, and lose their sessions; no job is ever added
ServerNames == {"n1", "n2"}

NextNames ==
    \/ Tick
    \/ \E s \in Servers, name \in ServerNames, force \in BOOLEAN : StartRun(s, name, force)
    \/ \E s \in Servers : CheckName(s)
    \/ \E s \in Servers : DeleteName(s)
    \/ \E s \in Servers : CreateName(s)
    \/ \E s \in Servers : GetNextjob(s)
    \/ \E s \in Servers : WaitWake(s)
    \/ \E s \in Servers : ServerSessionExpire(s)
    \/ Churn(Servers)

SpecNames == InitWith({}, {}) /\ [][NextNames]_vars

\* two servers waiting on the same head, which a CLI added at instant 1 to the
\* empty catalog; no server is killed and no CLI command runs
InitRace ==
    /\ now = 1
    /\ \E sched \in {"every", "once"} :
          LET head == buildJobFromArgs("a", sched, "/bin/true").job
          IN  /\ jobsZk = [n \in {"a"} |-> Serialize(head)]
              /\ nextjob = Serialize(head)
              /\ job = [p \in Procs |-> IF p \in Servers THEN head ELSE ZeroJob]
    /\ lockOwner = "none"
    /\ hasLock = [p \in Procs |-> FALSE]
    /\ pc = [p \in Procs |-> IF p \in Servers THEN "wait" ELSE "idle"]
    /\ watch = [s \in Servers |-> "armed"]
    /\ res = [c \in Clis |-> "none"]
    /\ op = [c \in Clis |-> "none"]
    /\ listed = [c \in Clis |-> << >>]
    /\ runs = NoRuns
    /\ acked = [n \in JobNames |-> NoAck]
    /\ hist = {"runs"}
    /\ serversZk = [n \in Servers |-> n]
    /\ serverName = [s \in Servers |-> s]
    /\ znodes = AllPaths
    /\ initAt = [p \in Procs |-> 0]
    /\ MonitorOff(Servers)

NextRace == Tick \/ \E s \in Servers : ServerStep(s)

SpecRace == InitRace /\ [][NextRace]_vars

\* servers started under names of their choice, with or without force, each
\* with its membership monitor, that are killed, stop, and lose their sessions
MemberNames == {"n1", "n2", "n3"}

NextMembers ==
    \/ \E s \in Servers, name \in MemberNames, force \in BOOLEAN : StartRun(s, name, force)
    \/ \E s \in Servers : CheckName(s)
    \/ \E s \in Servers : DeleteName(s)
    \/ \E s \in Servers : CreateName(s)
    \/ \E s \in Servers : MonitorStep(s)
    \/ \E s \in Servers : GetNextjob(s)
    \/ \E s \in Servers : WaitWake(s)
    \/ \E s \in Servers : ServerSessionExpire(s)
    \/ \E s \in Servers : Crash(s)
    \/ \E s \in Servers : SessionTimeout(s)
    \/ \E s \in Servers : Stop(s)

SpecMembers == InitWith({}, {"members"}) /\ [][NextMembers]_vars

----------------------------------------------------------------------------
\* Properties

\* the job of the catalog stored under name n
Stored(n) == Deserialize(jobsZk[n], now)

\* the jobs of the catalog that may be scheduled
Eligible == {n \in DOMAIN jobsZk : ~Stored(n).HasError}

\* n is the job computeHead is specified to return: least NextRuntime, then least name
IsHead(n) ==
    /\ n \in Eligible
    /\ \A m \in Eligible :
          \/ Stored(n).NextRuntime < Stored(m).NextRuntime
          \/ /\ Stored(n).NextRuntime = Stored(m).NextRuntime
             /\ NameRank(n) <= NameRank(m)

\* C1: for every job name and scheduled instant (an instant of its schedule,
\* which the zero time is not), at most one server dispatches the job for that
\* instant.
C1_OneDispatchPerTick ==
    \A n \in JobNames : runs[n].at > ZeroTime => Cardinality(runs[n].by) <= 1

\* C2: whenever no process holds joblock, /nextjob holds the job of /jobs with
\* the least nextRuntime among those with hasError=false, the smaller name on a tie.
C2_HeadMinimal ==
    (lockOwner = "none" /\ Eligible # {}) =>
        \E n \in Eligible : IsHead(n) /\ nextjob = jobsZk[n]

\* C7: whenever no process holds joblock, /nextjob is the sentinel or identical
\* to the record stored under /jobs/<name> of some existing job.
C7_PointerValid ==
    lockOwner = "none" =>
        \/ nextjob = << >>
        \/ \E n \in DOMAIN jobsZk : nextjob = jobsZk[n]

\* process p writes /nextjob in this step: setNextjob over a catalog that is not
\* empty, or the Set of checkForNextjobUpdate
WritesNextjob(p) ==
    \/ /\ p \in Servers
       /\ pc[p] = "setnext" /\ pc'[p] = "unlock"
       /\ DOMAIN jobsZk # {}
    \/ /\ p \in Clis
       /\ pc[p] = "check" /\ pc'[p] = "unlock" /\ res'[p] = "ok"
       /\ \/ checkForNextjobUpdate(ChangedJob(p)) = "set"
          \/ checkForNextjobUpdate(ChangedJob(p)) = "scan" /\ DOMAIN jobsZk # {}

\* server s starts the job of /nextjob in this step
Dispatches(s) == s \in Servers /\ pc[s] \in {"getw", "run"} /\ pc'[s] = "resched"

\* C4: every write to /nextjob and every dispatch of a job is performed by a
\* process that holds joblock at the moment of the write or dispatch.
C4_LockHeld ==
    [][/\ \A p \in Procs : (WritesNextjob(p) \/ Dispatches(p)) => lockOwner = p
       /\ nextjob' # nextjob => \E p \in Procs : WritesNextjob(p)]_vars

\* C5: no two processes of the cluster have hasLock=true at the same time,
\* sessions expiring and servers crashing included.
C5_MutualExclusion == \A p, q \in Procs : (hasLock[p] /\ hasLock[q]) => p = q

Due(n) ==
    /\ n \in Eligible
    /\ Stored(n).NextRuntime > ZeroTime
    /\ Stored(n).NextRuntime <= now

\* some server has just started the job of name n
Dispatching(n) == \E s \in Servers : pc[s] = "resched" /\ job[s].Name = n

\* the servers wait for an instant the clock of the model does not reach
BeyondHorizon == Deserialize(nextjob, now).NextRuntime > MaxTime

\* C3: while a server stays alive, every job of /jobs with hasError=false whose
\* nextRuntime is at or before the current time is eventually dispatched by
\* some server, whatever the other servers do (as far as the clock goes).
C3_DueIsDispatched ==
    \A n \in JobNames : Due(n) ~> (Dispatching(n) \/ BeyondHorizon)

\* the add of CLI process c creates its znode in this step
AddSucceeds(c) == op[c] = "add" /\ pc[c] = "write" /\ pc'[c] = "check"

\* the add of CLI process c returns success in this step
AddReturns(c) == op[c] = "add" /\ pc[c] = "unlock" /\ pc'[c] = "done" /\ res[c] = "ok"

\* C6: an add succeeds only when no /jobs/<name> exists, so that of several adds
\* of a name, concurrent or not, at most one succeeds; the others fail and leave
\* the store alone, and /jobs/<name> holds exactly the job of the successful add
\* when it is written and when the add returns.
C6_AddUnique ==
    [][\A c \in Clis :
          /\ AddSucceeds(c) =>
                /\ job[c].Name \notin DOMAIN jobsZk
                /\ DOMAIN jobsZk' = DOMAIN jobsZk \cup {job[c].Name}
                /\ Deserialize(jobsZk'[job[c].Name], now) = job[c]
                /\ \A n \in DOMAIN jobsZk : jobsZk'[n] = jobsZk[n]
          /\ (op[c] = "add" /\ pc[c] = "write" /\ pc'[c] # "write"
                 /\ job[c].Name \in DOMAIN jobsZk) =>
                /\ pc'[c] = "unlock" /\ res'[c] = "err"
                /\ jobsZk' = jobsZk /\ nextjob' = nextjob
          /\ AddReturns(c) =>
                /\ job[c].Name \in DOMAIN jobsZk
                /\ Deserialize(jobsZk[job[c].Name], now) = job[c]]_vars

C6_Witness ==
    /\ op["c1"] = "add" /\ pc["c1"] = "done" /\ res["c1"] = "ok"
    /\ op["c2"] = "add" /\ pc["c2"] = "done" /\ res["c2"] = "err"
    /\ job["c2"].Name = job["c1"].Name
    /\ job["c2"].Schedule = "every" /\ job["c1"].Schedule = "once"
    /\ "a" \in DOMAIN jobsZk /\ Deserialize(jobsZk["a"], now) = job["c1"]

\* the schedule strings cronexpr does not accept
InvalidSchedules == {"notacron"}

\* an add or upd of CLI process c with an invalid schedule has ended
Rejected(c) ==
    /\ op[c] \in {"add", "upd"}
    /\ job[c].Schedule \in InvalidSchedules

\* C9: for every invalid schedule string, add and upd return an error and write
\* nothing: /jobs/<name> is not created or changed and /nextjob is unchanged.
C9_InvalidScheduleNoWrite ==
    [][\A c \in Clis :
          /\ Rejected(c)' => (pc'[c] = "done" /\ res'[c] = "err")
          /\ (pc[c] = "idle" /\ Rejected(c)') => (jobsZk' = jobsZk /\ nextjob' = nextjob)]_vars

C9_Witness ==
    /\ Rejected("c1") /\ pc["c1"] = "done" /\ res["c1"] = "err"
    /\ op["c1"] = "upd" /\ job["c1"].Name \in DOMAIN jobsZk
    /\ Stored(job["c1"].Name).Schedule \notin InvalidSchedules

\* CLI process c runs list in this step, of one name or of all
Lists(c, n) == pc[c] = "idle" /\ op'[c] = "list" /\ job'[c].Name \in {"", n}

\* C10: a list issued after an add, upd or del has returned success, with no
\* other mutation of that name in between, returns the added or updated job with
\* the written fields and does not return a deleted job.
C10_ListReflects ==
    [][\A c \in Clis : \A n \in JobNames :
          Lists(c, n) =>
             /\ acked[n].kind \in {"add", "upd"} =>
                   /\ res'[c] = "ok"
                   /\ \E i \in 1..Len(listed'[c]) : listed'[c][i] = acked[n].job
             /\ acked[n].kind = "del" =>
                   \A i \in 1..Len(listed'[c]) : listed'[c][i].Name # n]_vars

C10_Witness ==
    /\ pc["c1"] = "done" /\ op["c1"] = "list" /\ res["c1"] = "ok"
    /\ acked["a"].kind = "upd" /\ acked["b"].kind = "del"
    /\ listed["c1"] = <<acked["a"].job>>

Running(s) == pc[s] \in {"getw", "wait", "lock", "run", "resched", "setnext", "unlock"}

\* a server that started under name n is alive and connected: it runs its
\* loop, or its process has ended and the store has its session still open
AliveUnder(n) ==
    \E s \in Servers :
       \/ Running(s) /\ serverName[s] = n
       \/ pc[s] \in {"dead", "exited"} /\ n \in DOMAIN serversZk /\ serversZk[n] = s

\* C12: for every server name, /servers/<name> exists if and only if the
\* server that started under that name is alive and session-connected, also
\* when another server is started with the same name and the force flag.
C12_ServerKey ==
    \A n \in ServerNames \cup Servers : n \in DOMAIN serversZk <=> AliveUnder(n)

\* server s, started without the force flag, takes a step of its startup
StartsUnforced(s) == pc[s] \in {"exists", "create"} /\ pc'[s] # pc[s]

C13_OneWinner == \A n \in JobNames : Cardinality(runs[n].by) <= 1

\* an add or upd of CLI process c returns success in this step
StoreReturns(c) ==
    op[c] \in {"add", "upd"} /\ pc[c] = "unlock" /\ pc'[c] = "done" /\ res[c] = "ok"

\* server s waits for the instant of job j1, a job of the catalog, and the job
\* j3 has another name and an earlier instant
WaitsForLater(s, j3) ==
    /\ pc[s] = "wait"
    /\ job[s].Name \in DOMAIN jobsZk /\ Stored(job[s].Name) = job[s]
    /\ job[s].Name # j3.Name
    /\ j3.NextRuntime > ZeroTime
    /\ j3.NextRuntime < job[s].NextRuntime

\* C14: when a server waits for head j1 and an add or upd stores a job j3 with
\* an earlier nextRuntime, /nextjob is j3 when the CLI operation returns (so
\* that the waiting servers wake and j3 is dispatched before j1).
C14_EarlierBecomesHead ==
    [][\A c \in Clis : \A s \in Servers :
          (StoreReturns(c) /\ WaitsForLater(s, job[c])) =>
              nextjob' = Serialize(job[c])]_vars

\* the del of CLI process c has removed the job /nextjob names and reconciles
\* /nextjob in this step, joblock still held
DelOfHeadReconciles(c) ==
    /\ op[c] = "del" /\ pc[c] = "check" /\ pc'[c] = "unlock"
    /\ Deserialize(nextjob, now).Name = job[c].Name

\* n is a remaining job with the least nextRuntime
IsLeast(n) ==
    /\ n \in DOMAIN jobsZk
    /\ \A m \in DOMAIN jobsZk : Stored(n).NextRuntime <= Stored(m).NextRuntime

\* C15: when del removes the job that is the current head, /nextjob is
\* replaced, before del releases joblock, by the remaining job with the least
\* nextRuntime, or by the sentinel when no job remains (so that no server
\* dispatches the deleted job).
C15_DelReplacesHead ==
    [][\A c \in Clis :
          DelOfHeadReconciles(c) =>
              IF DOMAIN jobsZk = {}
              THEN nextjob' = << >>
              ELSE \E n \in DOMAIN jobsZk : IsLeast(n) /\ nextjob' = jobsZk[n]]_vars

\* two running servers over an empty catalog, /nextjob at the sentinel, and a
\* CLI process at a time that adds jobs with valid schedules
NextFirst == Tick \/ (\E s \in Servers : ServerStep(s)) \/ CliAddStep("c1")

SpecFirst == InitWith(Servers, {"runs"}) /\ [][NextFirst]_vars

\* the add of CLI process c, its job written, reconciles a /nextjob that holds
\* the sentinel in this step
AddToEmptySchedule(c) ==
    /\ op[c] = "add" /\ pc[c] = "check" /\ pc'[c] = "unlock"
    /\ nextjob = << >>
    /\ job[c].NextRuntime > ZeroTime

\* the job of name n is the only job and has been dispatched for an instant of
\* its schedule
OnlyJobDispatched(n) ==
    DOMAIN jobsZk = {n} /\ runs[n].n >= 1 /\ runs[n].at > ZeroTime

\* C16: when /nextjob holds the sentinel and an add of a valid job succeeds,
\* /nextjob equals that job when the add returns; a running server dispatches
\* it once for its instant, and once the lock is released /nextjob equals
\* /jobs/<name> with the next firing instant.
C16_FirstJob ==
    [][/\ \A c \in Clis : AddToEmptySchedule(c) => nextjob' = Serialize(job[c])
       /\ \A n \in JobNames :
             OnlyJobDispatched(n)' =>
                /\ runs'[n].n = 1
                /\ lockOwner' = "none" =>
                      /\ nextjob' = jobsZk'[n]
                      /\ Deserialize(nextjob', now').NextRuntime > runs'[n].at]_vars

\* control of process p leaves a critical section in this step: the server
\* goes to sleep, has rescheduled, or returns from Run with an error; the CLI
\* command returns, with or without an error
Leaves(p) ==
    \/ /\ p \in Servers
       /\ pc[p] \in {"getw", "resched", "setnext", "unlock"}
       /\ pc'[p] \in {"wait", "exited"}
    \/ /\ p \in Servers
       /\ pc[p] = "unlock" /\ pc'[p] = "getw"
    \/ /\ p \in Clis
       /\ pc[p] \in {"write", "check", "unlock"}
       /\ pc'[p] = "done"

----------------------------------------------------------------------------
\* Bootstrap (Init)

\* zk.Conn.Create of a key of the namespace is refused when the node exists
CreateRefused(z) == z \in znodes

\* createIfNecessary has returned: Init goes on to the next key, or returns
AfterKey(p) ==
    IF initAt[p] < Len(InitPaths)
    THEN /\ initAt' = [initAt EXCEPT ![p] = initAt[p] + 1]
         /\ pc' = [pc EXCEPT ![p] = "init"]
    ELSE /\ initAt' = [initAt EXCEPT ![p] = 0]
         /\ pc' = [pc EXCEPT ![p] = "inited"]

\* createIfNecessary, the call of Exists
InitExists(p) ==
    /\ pc[p] = "init"
    /\ IF InitPaths[initAt[p]] \in znodes
       THEN AfterKey(p)
       ELSE /\ pc' = [pc EXCEPT ![p] = "initcreate"]
            /\ UNCHANGED initAt
    /\ UNCHANGED <<now, jobsZk, nextjob, lockOwner, hasLock, job, watch, res, op, listed, runs, acked, hist, serversZk, serverName, znodes, monVars>>

\* createIfNecessary, the call of Create with empty data; an error ends the
\* process (log.Error.Fatalf)
InitCreate(p) ==
    /\ pc[p] = "initcreate"
    /\ LET z == InitPaths[initAt[p]]
       IN  IF CreateRefused(z)
           THEN /\ pc' = [pc EXCEPT ![p] = "fatal"]
                /\ UNCHANGED <<initAt, znodes, nextjob>>
           ELSE /\ znodes' = znodes \cup {z}
                /\ nextjob' = IF z = PATH_NEXT_JOB THEN << >> ELSE nextjob
                /\ AfterKey(p)
    /\ UNCHANGED <<now, jobsZk, lockOwner, hasLock, job, watch, res, op, listed, runs, acked, hist, serversZk, serverName, monVars>>

\* the keys that can exist before an Init: any subset that holds the root
\* when it holds a key under it; /nextjob, when it exists, holds the sentinel
\* or a job
InitBoot ==
    /\ now = 1
    /\ jobsZk = NoJobs
    /\ \E S \in SUBSET AllPaths :
          /\ S # {} => NAMESPACE \in S
          /\ znodes = S
          /\ \E sched \in {"", "every"} :
                nextjob = IF PATH_NEXT_JOB \in S /\ sched # ""
                          THEN Serialize(buildJobFromArgs("a", sched, "/bin/true").job)
                          ELSE << >>
    /\ lockOwner = "none"
    /\ hasLock = [p \in Procs |-> FALSE]
    /\ pc = [p \in Procs |-> "init"]
    /\ job = [p \in Procs |-> ZeroJob]
    /\ watch = [s \in Servers |-> "none"]
    /\ res = [c \in Clis |-> "none"]
    /\ op = [c \in Clis |-> "none"]
    /\ listed = [c \in Clis |-> << >>]
    /\ runs = NoRuns
    /\ acked = [n \in JobNames |-> NoAck]
    /\ hist = {}
    /\ serversZk = NoServers
    /\ serverName = [s \in Servers |-> ""]
    /\ initAt = [p \in Procs |-> 1]
    /\ MonitorOff({})

\* every process runs Init, one after another or at the same time
NextBoot == \E p \in Procs : InitExists(p) \/ InitCreate(p)

SpecBoot == InitBoot /\ [][NextBoot]_vars

\* C19: Init is idempotent and safe under concurrency: run by any number of
\* processes, one after another or at the same time, against any pre-existing
\* subset of the keys, every Init succeeds, all five keys exist afterwards,
\* and the content of a /nextjob that existed is unchanged.
C19_InitIdempotent ==
    [][/\ \A p \in Procs : pc'[p] # "fatal"
       /\ \A p \in Procs : pc'[p] = "inited" => znodes' = AllPaths
       /\ PATH_NEXT_JOB \in znodes => nextjob' = nextjob]_vars

----------------------------------------------------------------------------
\* Failure of a server that may hold the lock

\* server s1 stays alive; server s2 is killed, returns from Run, loses its
\* session or is started again at any point of its loop. A live server keeps
\* taking steps, the lock queue of the store is fair, and the store closes
\* the session of a killed process after the session timeout
NextFail ==
    \/ Tick
    \/ ServerStep("s1")
    \/ ServerStep("s2")
    \/ RunJob("s2")
    \/ Crash("s2")
    \/ SessionTimeout("s2")
    \/ Stop("s2")
    \/ ServerStart("s2")
    \/ ServerSessionExpire("s2")

SpecFail ==
    /\ InitRace
    /\ [][NextFail]_vars
    /\ SF_vars(ServerStep("s1"))
    /\ SF_vars(ServerStep("s2"))
    /\ WF_vars(SessionTimeout("s2"))

\* C20: if a server is killed, stops or loses its session at any point of its
\* loop, also while it holds joblock, the lock becomes free again and the
\* other, live server that waits for joblock acquires it in the end.
C20_LockRecovers == (pc["s1"] = "lock") ~> (lockOwner = "s1")

\* s2 was killed while it held joblock and s1 waits for the lock
C20_Witness == pc["s1"] = "lock" /\ pc["s2"] = "dead" /\ lockOwner = "s2"

----------------------------------------------------------------------------
\* Rescheduling after a dispatch

\* updateSchedule of server s finds in this step that the schedule of the job
\* it started is invalid or gives the nextRuntime the job already has
RescheduleFails(s) ==
    /\ pc[s] = "resched" /\ pc'[s] = "setnext"
    /\ job[s].Name \in DOMAIN jobsZk
    /\ LET r == SetNextRuntime(job[s], now) IN r.err \/ ~r.changed

\* setNextjob of server s runs in this step for a job that failed to reschedule
HeadAfterFailure(s) ==
    pc[s] = "setnext" /\ pc'[s] = "unlock" /\ job[s].HasError

\* C21: after a dispatch, when the schedule gives no valid or no new instant,
\* the job is written to /jobs/<name> with hasError=true before the head is
\* recomputed, and it is not the head afterwards (so it is not dispatched again).
C21_ErrorPersisted ==
    [][\A s \in Servers :
          /\ RescheduleFails(s) => Deserialize(jobsZk'[job[s].Name], now).HasError
          /\ HeadAfterFailure(s) => Deserialize(nextjob', now).Name # job[s].Name]_vars

----------------------------------------------------------------------------
\* The reread of /nextjob under the lock

\* server s holds the lock it asked for and rereads /nextjob in this step
Rereads(s) ==
    /\ pc[s] = "getw" /\ hasLock[s] /\ lockOwner = s
    /\ pc'[s] \in {"wait", "resched", "exited"}

\* C22 as stated: after acquiring joblock a server dispatches only if the
\* reread head is the job, by name and nextRuntime, that made it ask for the
\* lock, and that nextRuntime is not after now; otherwise it releases the lock
\* and goes back to waiting without dispatching.
C22_SameHeadOnly ==
    [][\A s \in Servers :
          Rereads(s) =>
             IF Deserialize(nextjob, now) = job[s] /\ job[s].NextRuntime <= now
             THEN Dispatches(s)
             ELSE ~Dispatches(s) /\ lockOwner' # s]_vars

\* C22 as amended: after acquiring joblock a server rereads /nextjob and
\* dispatches the reread head if and only if its nextRuntime is not after now,
\* whether or not it is the job that made it ask for the lock; when the
\* nextRuntime is after now it releases the lock and waits without dispatching.
C22_ReadyHeadOnly ==
    [][\A s \in Servers :
          Rereads(s) =>
             IF Deserialize(nextjob, now).NextRuntime <= now
             THEN Dispatches(s) /\ job'[s] = Deserialize(nextjob, now)
             ELSE /\ ~Dispatches(s) /\ pc'[s] = "wait"
                  /\ lockOwner' # s /\ ~hasLock'[s]]_vars

\* the server asked for the lock for job a, holds it now, and /nextjob names
\* job b, which is ready
C22_Witness ==
    /\ pc["s1"] = "getw" /\ hasLock["s1"] /\ lockOwner = "s1"
    /\ job["s1"].Name = "a"
    /\ Deserialize(nextjob, now).Name = "b"
    /\ Deserialize(nextjob, now).NextRuntime > ZeroTime
    /\ Deserialize(nextjob, now).NextRuntime <= now

----------------------------------------------------------------------------
\* Jobs that share an instant

\* the jobs of names n and m may both run and share a nextRuntime that is an
\* instant of their schedules
Tied(n, m) ==
    /\ n \in Eligible /\ m \in Eligible
    /\ Stored(n).NextRuntime = Stored(m).NextRuntime
    /\ Stored(n).NextRuntime > ZeroTime

\* C23: when two jobs with hasError=false share the same nextRuntime, the one
\* with the smaller name is the head first (the other follows with its instant
\* unchanged), and each of the two is dispatched once for that instant.
C23_TieByName ==
    /\ (lockOwner = "none" /\ Tied("a", "b")) => nextjob = jobsZk["a"]
    /\ \A n \in JobNames : runs[n].at > ZeroTime => runs[n].n <= 1

----------------------------------------------------------------------------
\* The head of an empty schedule

\* process p recomputes the head with setNextjob in this step: a server after
\* a dispatch, a CLI command after the delete of the head
Recomputes(p) ==
    \/ /\ p \in Servers
       /\ pc[p] = "setnext" /\ pc'[p] = "unlock"
    \/ /\ p \in Clis
       /\ pc[p] = "check" /\ pc'[p] = "unlock"
       /\ checkForNextjobUpdate(ChangedJob(p)) = "scan"

\* C24: when the head is recomputed and /jobs holds no job with
\* hasError=false, the sentinel is published to /nextjob, which then does not
\* go on naming a job that cannot be scheduled.
C24_SentinelWhenEmpty ==
    [][\A p \in Procs :
          (Recomputes(p) /\ Eligible = {}) => nextjob' = << >>]_vars

----------------------------------------------------------------------------
\* An update of the head

\* the upd of CLI process c has rewritten the job /nextjob names and
\* reconciles /nextjob in this step, joblock still held
UpdOfHeadReconciles(c) ==
    /\ op[c] = "upd" /\ pc[c] = "check" /\ pc'[c] = "unlock"
    /\ Deserialize(nextjob, now).Name = job[c].Name

\* the job of name m may run and its instant is earlier than that of job j
EarlierThan(m, j) ==
    /\ m \in Eligible /\ m # j.Name
    /\ Stored(m).NextRuntime > ZeroTime
    /\ Stored(m).NextRuntime < j.NextRuntime

\* C25: when upd changes the job that is the current head, the head is
\* recomputed over the whole catalog before the lock is released: if the new
\* nextRuntime of the updated job is later than another job's, that other job
\* is in /nextjob afterwards, not the updated one.
C25_UpdRecomputesHead ==
    [][\A c \in Clis :
          (UpdOfHeadReconciles(c) /\ \E m \in JobNames : EarlierThan(m, job[c])) =>
              \E m \in JobNames : EarlierThan(m, job[c]) /\ nextjob' = jobsZk[m]]_vars

----------------------------------------------------------------------------
\* Waiting without the lock

\* C26: a server never holds joblock while it waits for the watch of /nextjob
\* or the timer: if it holds the lock when it finds the nextRuntime of the head
\* after now, it releases the lock before it starts to wait.
C26_NoLockWhileWaiting ==
    \A s \in Servers : pc[s] = "wait" => (lockOwner # s /\ ~hasLock[s])

\* the server holds the lock it asked for, and the head it is about to read
\* again has a nextRuntime after now
C26_Witness ==
    /\ pc["s1"] = "getw" /\ hasLock["s1"] /\ lockOwner = "s1"
    /\ job["s1"].Name = "a" /\ Ready(job["s1"], now)
    /\ nextjob # << >>
    /\ ~Ready(Deserialize(nextjob, now), now)

----------------------------------------------------------------------------
\* The watch of /nextjob

\* /nextjob holds what server s read when it set its watch
HeadAsRead(s) ==
    IF nextjob = << >> THEN job[s].Name = NULL_JOBNAME
    ELSE Deserialize(nextjob, now) = job[s]

\* C27: no update of /nextjob is missed by a waiting server: while its watch
\* has not fired /nextjob is what the server read, a waiting server goes
\* nowhere but back to the read of /nextjob, and the job a server dispatches
\* is the head it has just read, never one replaced while it waited.
C27_NoMissedUpdate ==
    [][\A s \in Servers :
          /\ (pc'[s] = "wait" /\ watch'[s] = "armed") => HeadAsRead(s)'
          /\ pc[s] = "wait" => pc'[s] \in {"wait", "getw"}
          /\ Dispatches(s) => job'[s] = Deserialize(nextjob, now)]_vars

\* the server waits for job a, /nextjob has been replaced since it read it,
\* and its watch has fired
C27_Witness ==
    /\ pc["s1"] = "wait" /\ job["s1"].Name = "a"
    /\ job["s1"].NextRuntime > now
    /\ nextjob # Serialize(job["s1"])
    /\ watch["s1"] = "fired"

----------------------------------------------------------------------------
\* Errors that end the loop

\* the select of server s receives the error event of its watch in this
\* step, the timer not having expired
ErrorEvent(s) ==
    /\ pc[s] = "wait" /\ watch[s] = "err" /\ now < job[s].NextRuntime
    /\ watch'[s] = "none" /\ pc'[s] # "dead"

\* server s waits in zk.Lock.Lock and its session is lost in this step
LockFails(s) ==
    /\ pc[s] = "lock" /\ pc'[s] # "dead"
    /\ s \in DOMAIN serversZk /\ s \notin DOMAIN serversZk'

----------------------------------------------------------------------------
\* Observers of a write in progress

\* process p has written /jobs/<name> and has not yet published /nextjob
Pending(p) ==
    \/ p \in Clis /\ pc[p] = "check"
    \/ p \in Servers /\ pc[p] = "setnext" /\ ~job[p].HasError

\* process p, which does not hold the lock, reads the store in this step: a
\* server reads /nextjob, a CLI list reads /jobs
Observes(p) ==
    \/ /\ p \in Servers
       /\ pc[p] = "getw" /\ ~hasLock[p] /\ pc'[p] \in {"wait", "lock"}
    \/ /\ p \in Clis
       /\ pc[p] = "idle" /\ op'[p] = "list"

\* C29: a write to /jobs/<name> and the publication of /nextjob that follows
\* are made within one hold of joblock, and no process outside the critical
\* section (a server reading /nextjob, a CLI list) observes a state in which
\* the write is visible and the publication still pending.
C29_AtomicPublication ==
    [][/\ \A p \in Procs : Pending(p) => lockOwner = p
       /\ \A p, q \in Procs : Observes(p) => ~Pending(q)]_vars

----------------------------------------------------------------------------
\* upd and del of a name that is not in the catalog

\* the upd or del of CLI process c, holding a valid job, calls the store for a
\* name that has no /jobs/<name> in this step
WritesMissing(c) ==
    /\ op[c] \in {"upd", "del"}
    /\ pc[c] = "write" /\ pc'[c] # "write"
    /\ job[c].Name \notin DOMAIN jobsZk

\* the upd or del of CLI process c, refused by the store, returns in this step
ReturnsRefused(c) ==
    /\ op[c] \in {"upd", "del"}
    /\ pc[c] = "unlock" /\ pc'[c] = "done"
    /\ res[c] = "err"

\* C30: upd of a name that has no /jobs/<name> and del of a name that has no
\* /jobs/<name> return an error, create no job, and leave every key of /jobs
\* and /nextjob unchanged.
C30_MissingNameRefused ==
    [][\A c \in Clis :
          /\ WritesMissing(c) =>
                /\ pc'[c] = "unlock" /\ res'[c] = "err"
                /\ jobsZk' = jobsZk /\ nextjob' = nextjob
          /\ ReturnsRefused(c) =>
                /\ res'[c] = "err"
                /\ jobsZk' = jobsZk /\ nextjob' = nextjob]_vars

\* a del of a name that is not in the catalog has returned its error, the
\* catalog and the head holding another job
C30_Witness ==
    \E c \in Clis :
       /\ pc[c] = "done" /\ op[c] = "del" /\ res[c] = "err"
       /\ job[c].Name \notin DOMAIN jobsZk
       /\ jobsZk # NoJobs /\ nextjob # << >>

----------------------------------------------------------------------------
\* The hasLock flag as a reentrancy guard

\* server s, in updateSchedule, completes UpdateZk or setNextjob in this step
SchedulerWrites(s) ==
    \/ pc[s] = "resched" /\ pc'[s] = "setnext"
    \/ pc[s] = "setnext" /\ pc'[s] = "unlock"

\* the catalog operation of CLI process c, called without the lock, is granted
\* the lock in this step
CatalogAcquires(c) == pc[c] = "lock" /\ pc'[c] = "write"

\* the catalog operation of CLI process c returns in this step
CatalogReturns(c) == pc[c] = "unlock" /\ pc'[c] = "done"

\* C31: a catalog operation called by a process that holds joblock neither
\* acquires nor releases it, the scheduler holding the lock from its
\* acquisition through the job update and the publication of the head; the
\* same operation called without the lock acquires it and has released it
\* when it returns.
C31_ReentrantLock ==
    [][/\ \A s \in Servers : SchedulerWrites(s) => (lockOwner = s /\ lockOwner' = s)
       /\ \A c \in Clis :
             /\ CatalogAcquires(c) => (lockOwner = "none" /\ lockOwner' = c)
             /\ CatalogReturns(c) => lockOwner' # c]_vars

----------------------------------------------------------------------------
\* The membership monitor

\* the monitor of server s processes a snapshot of /servers in this step
ProcessesSnapshot(s) == monitor[s] = "read" /\ monitor'[s] = "test"

\* C32: for every pair of consecutive snapshots of /servers the monitor
\* processes, the joins reported are exactly the names of the new snapshot that
\* were not in the previous one, the server's own name left out, the leaves
\* reported are exactly the names of the previous snapshot that are not in the
\* new one, and afterwards the keys of the map are the new snapshot.
C32_DiffExact ==
    [][\A s \in Servers :
          /\ ProcessesSnapshot(s) =>
                /\ newServers'[s] = (allServers'[s] \ allServers[s]) \ {serverName[s]}
                /\ deletedServers'[s] = allServers[s] \ allServers'[s]
                /\ DOMAIN serverMap'[s] = allServers'[s]
          /\ (pc[s] = "report" /\ pc'[s] = "setrun") =>
                DOMAIN serverMap'[s] = allServers'[s]]_vars

\* a monitor has processed a snapshot in which one server had started and
\* another had stopped since the snapshot before
C32_Witness ==
    \E s \in Servers :
       /\ monitor[s] = "test" /\ mapUpdCount[s] > 1
       /\ newServers[s] # {} /\ deletedServers[s] # {}
       /\ lastServers[s] # allServers[s]

\* the goroutine of the monitor of server s returns in this step
MonitorEnds(s) == monitor[s] # "ended" /\ monitor'[s] = "ended"

\* C33: once a server has started, its membership monitor keeps watching
\* /servers until the first store or watch error: while the server runs, the
\* monitor terminates for no other reason.
C33_MonitorEndsOnErrorOnly ==
    [][\A s \in Servers : MonitorEnds(s) => srvWatch[s] = "err"]_vars

----------------------------------------------------------------------------
\* A crash of the dispatching server

\* server s starts in this step the job of /nextjob for an instant of its
\* schedule for which a server that has since been killed had started it
RetriesAfterCrash(s) ==
    LET j == job'[s]
    IN  /\ Dispatches(s)
        /\ j.NextRuntime > ZeroTime
        /\ runs[j.Name].at = j.NextRuntime
        /\ \E d \in runs[j.Name].by : d # s /\ pc[d] = "dead"

\* C34: if the server that dispatched a job is killed at any point after it
\* started the command, also before it has published the rescheduled head, no
\* other server dispatches the job again for the same instant.
C34_NoRetryAfterCrash == [][\A s \in Servers : ~RetriesAfterCrash(s)]_vars

----------------------------------------------------------------------------
\* The sentinel in /nextjob

\* server s waits on the watch and the timer it set when it read the sentinel
WaitsOnSentinel(s) ==
    /\ pc[s] = "wait" /\ watch[s] = "armed"
    /\ nextjob = << >>

\* C35: while /nextjob holds the sentinel no server requests joblock or
\* dispatches anything: every read of the sentinel yields a nextRuntime after
\* the reader's current time, so that the server waits until /nextjob is
\* replaced.
C35_SentinelWaits ==
    [][\A s \in Servers :
          /\ (pc[s] = "getw" /\ nextjob = << >>) =>
                (pc'[s] \notin {"lock", "run", "resched"} /\ runs' = runs)
          /\ WaitsOnSentinel(s)' =>
                (job'[s].Name = NULL_JOBNAME /\ job'[s].NextRuntime > now')]_vars

\* a server that has read the sentinel still waits at a later instant, the
\* lock free
C35_Witness ==
    \E s \in Servers :
       /\ WaitsOnSentinel(s) /\ job[s].Name = NULL_JOBNAME
       /\ now > 1 /\ job[s].NextRuntime > now
       /\ lockOwner = "none"

----------------------------------------------------------------------------
\* The hasLock flag and the owner of the lock

\* C36: in every reachable state the hasLock flag of a running process is true
\* if and only if the process owns joblock in the store; the flag is not left
\* true after a session loss removed the lock or after a failed unlock, and is
\* not left false while the lock is owned.
C36_FlagIffOwner ==
    \A p \in Procs :
       pc[p] \notin {"dead", "stopped"} => (hasLock[p] <=> lockOwner = p)

----------------------------------------------------------------------------
\* The instant of a dispatch

\* C37: a job is never dispatched early: at every dispatch the nextRuntime of
\* the job, as /nextjob holds it at that moment, is at or before the clock of
\* the dispatching server.
C37_NeverEarly ==
    [][\A s \in Servers :
          Dispatches(s) =>
             LET head == Deserialize(nextjob, now)
             IN  head.Name = job'[s].Name => head.NextRuntime <= now]_vars

----------------------------------------------------------------------------
\* An acknowledged upd and the writes of the scheduler

\* one server and one CLI process at a time over one job name, with process
\* kills, restarts and session expiry, and the history of the acknowledged
\* mutations
SpecLost == InitWith({"s1"}, {"acked"}) /\ [][NextFaults]_vars

\* the upd of job n has returned success and /jobs/n has not changed since
UpdStands(n) == acked[n].kind = "upd"

\* the serialized job b carries the schedule and the cmd of job j
SameDefinition(b, j) ==
    LET d == Deserialize(b, now)
    IN  d.Schedule = j.Schedule /\ d.Cmd = j.Cmd

\* server s sets a znode of /jobs in this step
ReschedWrites(s) == pc[s] = "resched" /\ jobsZk' # jobsZk

\* server s publishes job n in /nextjob in this step
Publishes(s, n) ==
    /\ pc[s] = "setnext" /\ pc'[s] = "unlock"
    /\ Deserialize(nextjob', now).Name = n

\* C38: a successful upd of job j is never lost to a reschedule: once the upd
\* has returned, a write of a server to /jobs/j keeps the schedule and the cmd
\* of the upd, and a server that publishes j in /nextjob publishes it with the
\* schedule and the cmd that /jobs/j holds.
C38_UpdNotLost ==
    [][\A s \in Servers, n \in JobNames :
          /\ (UpdStands(n) /\ ReschedWrites(s)) =>
                /\ n \in DOMAIN jobsZk'
                /\ SameDefinition(jobsZk'[n], acked[n].job)
          /\ (Publishes(s, n) /\ n \in DOMAIN jobsZk) =>
                SameDefinition(nextjob', Deserialize(jobsZk[n], now))]_vars

----------------------------------------------------------------------------
\* A deleted job and the writes of the scheduler

\* C39: after a del of job j has returned success, /jobs/j stays absent until
\* a later add of j: the only step that makes a znode of /jobs appear is the
\* Create of an add of that name, so no reschedule of a server, in whatever
\* interleaving with the del, creates /jobs/j again.
C39_DelStays ==
    [][\A n \in JobNames :
          (n \notin DOMAIN jobsZk /\ n \in DOMAIN jobsZk') =>
             \E c \in Clis : AddSucceeds(c) /\ job[c].Name = n]_vars

\* the del of job a has returned success while a server that started a is
\* about to store its next run time
C39_Witness ==
    /\ acked["a"].kind = "del"
    /\ "a" \notin DOMAIN jobsZk
    /\ \E s \in Servers : pc[s] = "resched" /\ job[s].Name = "a" /\ hasLock[s]
====
